---- MODULE Spec2Model ----
(***************************************************************************)
(* Model of the book buffer cache (lib/bookCache: BookCacheManager).       *)
(*                                                                         *)
(* bookCache is a JavaScript Map: its iteration order is insertion order,  *)
(* Map.set on a present key keeps the key's position, Map.delete removes   *)
(* it.  It is modelled as a sequence of entries without duplicate ids.     *)
(* Date.now() is the variable now; it advances by Tick between handlers    *)
(* and may also advance between two Date.now() calls of one handler.       *)
(* Time is counted in abstract units: MAX_CACHE_AGE and PRELOAD_TIMEOUT    *)
(* keep their roles, scaled down so that expiry and timeouts happen within *)
(* MaxTime units; MAX_CACHE_SIZE is scaled down from 5 likewise.           *)
(***************************************************************************)
EXTENDS Integers, Sequences, FiniteSets, TLC

\* ---- bounds of the model
MaxTime == 3

\* ---- CACHE_CONFIG (scaled)
MAX_CACHE_SIZE == 2
MAX_CACHE_AGE == 1
PRELOAD_TIMEOUT == 1

\* book ids handed to the cache (never the empty string: generateBookId
\* builds them from the file name and a timestamp)
BookIds == {"a", "b", "c"}
\* ArrayBuffers, told apart by identity; NoBuffer stands for null
Buffers == {1, 2}
NoBuffer == 0
\* arrayBuffer.byteLength: buffer 1 is empty, buffer 2 holds one byte
ByteLength(b) == b - 1
\* the loop variable oldestKey starts as ''
NoKey == ""

VARIABLES
    bookCache,  \* Map<string, CachedBook> as a sequence in insertion order
    now,        \* Date.now()
    last,       \* the last cache operation: its name, arguments and result
    puts,       \* history: the cacheBook calls since the cache was created or cleared
    tasks,      \* the outstanding preloadBook calls
    calls,      \* number of file.arrayBuffer() invocations so far
    settings,   \* useBookStore: settings
    books,      \* useBookStore: books
    currentBook,    \* useBookStore: currentBook
    isLoading,  \* useBookStore: isLoading
    error,      \* useBookStore: error
    uploadStatus,   \* FileUpload: uploadStatus
    errorMessage,   \* FileUpload: errorMessage
    uploads,    \* FileUpload: the runs of onDrop
    parse,      \* EpubParser: the run of parseEpubFile
    reader,     \* EpubReader: its useState values
    loads       \* EpubReader: the runs of loadBook

vars == <<bookCache, now, last, puts, tasks, calls,
          settings, books, currentBook, isLoading, error, uploadStatus, errorMessage,
          uploads, parse, reader, loads>>

\* the state of the buffer cache and of the preloadBook calls
cacheVars == <<bookCache, now, last, puts, tasks, calls>>

\* the state of the store, of the upload component, of the parser and of the reader
appVars == <<settings, books, currentBook, isLoading, error, uploadStatus, errorMessage,
             uploads, parse, reader, loads>>

\* the state the upload component writes besides the books
uploadVars == <<isLoading, error, uploadStatus, errorMessage, uploads>>

\* ---- Map helpers

\* Map.has
Has(c, k) == \E i \in 1..Len(c) : c[i].id = k

\* Map.get of a present key
Get(c, k) == c[CHOOSE i \in 1..Len(c) : c[i].id = k]

\* Map.delete
Delete(c, k) == SelectSeq(c, LAMBDA e : e.id # k)

\* variant of Set: a present key keeps the entry it has
SetKeepsExisting(c, e) == IF Has(c, e.id) THEN c ELSE Append(c, e)

\* variant of Set: always appends, so a present key gets a second entry
SetAppends(c, e) == Append(c, e)

\* Map.set: in place for a present key, appended otherwise
Set(c, e) ==
    IF Has(c, e.id)
    THEN [i \in 1..Len(c) |-> IF c[i].id = e.id THEN e ELSE c[i]]
    ELSE Append(c, e)

KeysOf(c) == {c[i].id : i \in 1..Len(c)}

\* variant of Expired: the age is counted from the last read
ExpiredSinceAccess(e, t) == t - e.lastAccessed > MAX_CACHE_AGE

\* variant of Expired: an age of exactly MAX_CACHE_AGE already counts as expired
ExpiredAtLimit(e, t) == t - e.timestamp >= MAX_CACHE_AGE

\* now - cached.timestamp > CACHE_CONFIG.MAX_CACHE_AGE
Expired(e, t) == t - e.timestamp > MAX_CACHE_AGE

\* ---- pure parts of the handlers

\* variant of CleanExpired: only the first expired entry found is deleted
CleanExpiredStopsEarly(c, t) ==
    LET idx == {i \in 1..Len(c) : Expired(c[i], t)}
    IN  IF idx = {} THEN c
        ELSE Delete(c, c[CHOOSE i \in idx : \A j \in idx : i <= j].id)

\* cleanExpiredCache: collect the expired keys, then delete each
CleanExpired(c, t) == SelectSeq(c, LAMBDA e : ~Expired(e, t))

\* the scan of cacheBook: [key, time] after visiting c[i..Len(c)] in order,
\* starting from oldestKey = key, oldestTime = time
RECURSIVE ScanOldest(_, _, _, _)
ScanOldest(c, i, key, time) ==
    IF i > Len(c) THEN [key |-> key, time |-> time]
    ELSE IF c[i].lastAccessed < time
         THEN ScanOldest(c, i + 1, c[i].id, c[i].lastAccessed)
         ELSE ScanOldest(c, i + 1, key, time)

\* oldestKey after the loop, with oldestTime initialised to Date.now() = t
OldestKey(c, t) == ScanOldest(c, 1, NoKey, t).key

\* variant of CacheIsFull: the cache counts as full one entry early
CacheIsFullEarly(c) == Len(c) >= MAX_CACHE_SIZE - 1

\* if (bookCache.size >= MAX_CACHE_SIZE)
CacheIsFull(c) == Len(c) >= MAX_CACHE_SIZE

\* the capacity branch of cacheBook
EvictOldest(c, t) ==
    IF CacheIsFull(c)
    THEN LET k == OldestKey(c, t) IN IF k # NoKey THEN Delete(c, k) ELSE c
    ELSE c

\* the entry written by cacheBook
NewEntry(k, b, t) == [id |-> k, arrayBuffer |-> b, timestamp |-> t, lastAccessed |-> t]

\* variant of CacheBookResult: the capacity branch runs before the sweep
CacheBookResultEvictsFirst(c, k, b, t1, t2, t3) ==
    Set(CleanExpired(EvictOldest(c, t2), t1), NewEntry(k, b, t3))

\* cacheBook with its three Date.now() readings t1 <= t2 <= t3
CacheBookResult(c, k, b, t1, t2, t3) ==
    Set(EvictOldest(CleanExpired(c, t1), t2), NewEntry(k, b, t3))

\* variant of GetCachedBookMap: a miss leaves an empty entry under the key
GetCachedBookMapCreates(c, k, t) ==
    IF ~Has(c, k) THEN Append(c, NewEntry(k, NoBuffer, t))
    ELSE IF Expired(Get(c, k), t) THEN Delete(c, k)
    ELSE Set(c, [Get(c, k) EXCEPT !.lastAccessed = t])

\* getCachedBook: the map afterwards
GetCachedBookMap(c, k, t) ==
    IF ~Has(c, k) THEN c
    ELSE IF Expired(Get(c, k), t) THEN Delete(c, k)
    ELSE Set(c, [Get(c, k) EXCEPT !.lastAccessed = t])

\* getCachedBook: the value returned
GetCachedBookValue(c, k, t) ==
    IF ~Has(c, k) THEN NoBuffer
    ELSE IF Expired(Get(c, k), t) THEN NoBuffer
    ELSE Get(c, k).arrayBuffer

\* variant of IsBookCachedMap: a hit also refreshes lastAccessed
IsBookCachedMapTouches(c, k, t) ==
    IF ~Has(c, k) THEN c
    ELSE IF Expired(Get(c, k), t) THEN Delete(c, k)
    ELSE Set(c, [Get(c, k) EXCEPT !.lastAccessed = t])

\* variant of IsBookCachedMap: the expired-entry branch deletes every expired entry
IsBookCachedMapSweeps(c, k, t) ==
    IF Has(c, k) /\ Expired(Get(c, k), t) THEN CleanExpired(c, t) ELSE c

\* variant of IsBookCachedMap: the expired entry is not deleted
IsBookCachedMapKeeps(c, k, t) == c

\* isBookCached: the map afterwards
IsBookCachedMap(c, k, t) ==
    IF Has(c, k) /\ Expired(Get(c, k), t) THEN Delete(c, k) ELSE c

\* isBookCached: the value returned
IsBookCachedValue(c, k, t) == Has(c, k) /\ ~Expired(Get(c, k), t)

\* ---- preloadBook: one record per call
\* the calls of preloadBook that can be outstanding together
Procs == {1, 2}

\* pc: idle (not called yet), awaiting (suspended at the await of Promise.race),
\*     settled (the promise returned by preloadBook has settled)
\* file: state of the promise returned by file.arrayBuffer()
\* timer: state of the setTimeout of timeoutPromise; deadline: when it is due
\* outcome: the path preloadBook took; promise: how its returned promise settled
\* put: this call has executed cacheBook
\* before, alone (history): the map as it was when the call was made, kept
\*     while no other cache operation has run since the call
IdleTask ==
    [pc |-> "idle", key |-> NoKey, file |-> "none", timer |-> "none", deadline |-> 0,
     outcome |-> "none", promise |-> "pending", put |-> FALSE,
     before |-> <<>>, alone |-> FALSE]

\* history: another cache operation ran, the snapshots of the calls are dropped
Disturbed(ts) == [p \in DOMAIN ts |-> [ts[p] EXCEPT !.before = <<>>, !.alone = FALSE]]

\* history: the call of p starts with the map c and becomes task
Called(ts, p, c, task) ==
    [Disturbed(ts) EXCEPT ![p] = [task EXCEPT !.before = c, !.alone = TRUE]]

\* the early return when isBookCached(bookId) is true
SkippedTask(k) ==
    [IdleTask EXCEPT !.pc = "settled", !.key = k, !.outcome = "skipped",
                     !.promise = "fulfilled"]

\* variant of AwaitingTask: no timer is set up, the race has one contestant
AwaitingTaskNoTimer(k, t) ==
    [IdleTask EXCEPT !.pc = "awaiting", !.key = k, !.file = "pending",
                     !.deadline = t + PRELOAD_TIMEOUT]

\* the timer is armed, file.arrayBuffer() is called, the function suspends
AwaitingTask(k, t) ==
    [IdleTask EXCEPT !.pc = "awaiting", !.key = k, !.file = "pending",
                     !.timer = "armed", !.deadline = t + PRELOAD_TIMEOUT]

\* variant of Caught: the catch block rethrows
CaughtRethrows(task, why) ==
    [task EXCEPT !.pc = "settled", !.outcome = why, !.promise = "rejected"]

\* the catch block: console.warn, then the function returns normally
Caught(task, why) ==
    [task EXCEPT !.pc = "settled", !.outcome = why, !.promise = "fulfilled"]

\* the try block ran to its end: cacheBook was called
Cached(task) ==
    [task EXCEPT !.pc = "settled", !.file = "resolved", !.outcome = "cached",
                 !.promise = "fulfilled", !.put = TRUE]

\* getCacheStats: the loop over bookCache.values(), from the entry at index i on
RECURSIVE StatsFrom(_, _, _)
StatsFrom(c, i, acc) ==
    IF i > Len(c) THEN acc
    ELSE StatsFrom(c, i + 1,
            [acc EXCEPT !.totalSize = @ + ByteLength(c[i].arrayBuffer),
                        !.oldestCache = IF c[i].timestamp < @ THEN c[i].timestamp ELSE @,
                        !.newestCache = IF c[i].timestamp > @ THEN c[i].timestamp ELSE @])

\* variant of CacheStats: oldestTime starts at 0 like newestTime
CacheStatsOldestFromZero(c, t) ==
    StatsFrom(c, 1, [totalCached |-> Len(c), totalSize |-> 0,
                     oldestCache |-> 0, newestCache |-> 0])

\* getCacheStats: oldestTime starts at Date.now(), newestTime at 0
CacheStats(c, t) ==
    StatsFrom(c, 1, [totalCached |-> Len(c), totalSize |-> 0,
                     oldestCache |-> t, newestCache |-> 0])

\* ---- the record of the last operation
\* what an operation that returns no statistics leaves in last.stats
NoStats == [totalCached |-> -1, totalSize |-> -1, oldestCache |-> -1, newestCache |-> -1]

\* a function declared void returns no number
Undefined == -1

\* op, key, buf: the call; ret: the buffer returned; ok: the boolean returned;
\* removed: the keys the call deleted from the map; stats: the statistics returned;
\* returned: the number returned; logged: the count written by console.log;
\* read: the keys deleted whose entry had been read by getCachedBook
Op(name, k, b, ret, ok, before, after) ==
    [op |-> name, key |-> k, buf |-> b, ret |-> ret, ok |-> ok,
     removed |-> KeysOf(before) \ KeysOf(after), stats |-> NoStats,
     returned |-> Undefined, logged |-> 0,
     read |-> {before[i].id : i \in {j \in 1..Len(before) :
                    /\ before[j].id \notin KeysOf(after)
                    /\ before[j].lastAccessed > before[j].timestamp}}]

\* the record of a cacheBook call on the map c at clock value t: the sweep it
\* starts with logs the number of entries it deleted
PutOp(k, b, c, after, t) ==
    [Op("cacheBook", k, b, NoBuffer, FALSE, c, after)
        EXCEPT !.logged = Len(c) - Len(CleanExpired(c, t))]

\* history of cacheBook calls: valid while the calls since the cache was empty
\* (created or cleared) had pairwise distinct keys and were at most MAX_CACHE_SIZE
NoPuts == [valid |-> TRUE, log |-> <<>>]
LogPut(h, k, b, t) ==
    IF h.valid /\ ~Has(h.log, k) /\ Len(h.log) < MAX_CACHE_SIZE
    THEN [h EXCEPT !.log = Append(@, [id |-> k, arrayBuffer |-> b, timestamp |-> t])]
    ELSE [valid |-> FALSE, log |-> <<>>]

\* the next reading of Date.now() after a reading of t
Later(t) == {u \in {t, t + 1} : u <= MaxTime}

\* ---- the store, the upload component, the parser and the reader at start
\* the range slider of the settings panel: min, max, step
MinFontSize == 12
MaxFontSize == 32
FontSizeStep == 2

\* defaultSettings (the fields the reader's loadBook and the panel's size controls use)
DefaultFontSize == 16
defaultSettings ==
    [fontSize |-> DefaultFontSize, theme |-> "light",
     columnMode |-> "single", readingMode |-> "paginated"]

\* currentBook: null
NoBook == [id |-> NoKey, progress |-> 0]

\* the onDrop runs that can overlap, in the order they start
MaxUploads == 3
Uploads == 1..MaxUploads

\* an onDrop run that has not started; timer is its delayed status reset
IdleUpload == [pc |-> "idle", timer |-> "none"]

\* parseEpubFile not running; buffer: the ArrayBuffer it holds; convTimer, readyTimer:
\* its two setTimeout timers; result: "book" or the message of the error the
\* returned promise rejected with; cause (history): what ended the run
IdleParse ==
    [pc |-> "idle", key |-> NoKey, buffer |-> NoBuffer, convTimer |-> "none",
     readyTimer |-> "none", result |-> "none", cause |-> "none"]

\* the runs of the reader's loadBook that can overlap, in the order they start
MaxLoads == 3
Loads == 1..MaxLoads

\* a loadBook run that has not started; key: book.id; timer: its 30 s timer;
\* hide: its 500 ms timer
IdleLoad == [pc |-> "idle", key |-> NoKey, timer |-> "none", hide |-> "none"]

\* the reader's useState values at mount (loadingTimeout 0: null), and
\* closure: the loadingTimeout captured by the current loadBook callback
InitialReader ==
    [isLoading |-> TRUE, loadingError |-> "null", loadingTimeout |-> 0, closure |-> 0]

Init ==
    /\ bookCache = <<>>
    /\ now = 0
    /\ last = Op("init", NoKey, NoBuffer, NoBuffer, FALSE, <<>>, <<>>)
    /\ puts = NoPuts
    /\ tasks = [p \in Procs |-> IdleTask]
    /\ calls = 0
    /\ settings = defaultSettings
    /\ books = <<>>
    /\ currentBook = NoBook
    /\ isLoading = FALSE
    /\ error = "null"
    /\ uploadStatus = "idle"
    /\ errorMessage = ""
    /\ uploads = [u \in Uploads |-> IdleUpload]
    /\ parse = IdleParse
    /\ reader = InitialReader
    /\ loads = [l \in Loads |-> IdleLoad]

\* time passes between two handlers
Tick ==
    /\ now < MaxTime
    /\ now' = now + 1
    /\ UNCHANGED <<bookCache, last, puts, tasks, calls>>
    /\ UNCHANGED appVars

IsBookCached(k) ==
    /\ bookCache' = IsBookCachedMap(bookCache, k, now)
    /\ last' = Op("isBookCached", k, NoBuffer, NoBuffer,
                  IsBookCachedValue(bookCache, k, now), bookCache, bookCache')
    /\ tasks' = Disturbed(tasks)
    /\ UNCHANGED <<now, puts, calls>>
    /\ UNCHANGED appVars

GetCachedBook(k) ==
    /\ bookCache' = GetCachedBookMap(bookCache, k, now)
    /\ last' = Op("getCachedBook", k, NoBuffer,
                  GetCachedBookValue(bookCache, k, now), FALSE, bookCache, bookCache')
    /\ tasks' = Disturbed(tasks)
    /\ UNCHANGED <<now, puts, calls>>
    /\ UNCHANGED appVars

CacheBook(k, b) ==
    \E t2 \in Later(now) : \E t3 \in Later(t2) :
        /\ bookCache' = CacheBookResult(bookCache, k, b, now, t2, t3)
        /\ last' = PutOp(k, b, bookCache, bookCache', now)
        /\ puts' = LogPut(puts, k, b, t3)
        /\ now' = t3
        /\ tasks' = Disturbed(tasks)
        /\ UNCHANGED calls
        /\ UNCHANGED appVars

\* variant of CleanExpiredCache: the function returns expiredKeys.length
CleanExpiredCacheReturnsCount ==
    /\ bookCache' = CleanExpired(bookCache, now)
    /\ last' = [Op("cleanExpiredCache", NoKey, NoBuffer, NoBuffer, FALSE,
                   bookCache, bookCache')
                    EXCEPT !.logged = Len(bookCache) - Len(bookCache'),
                           !.returned = Len(bookCache) - Len(bookCache')]
    /\ tasks' = Disturbed(tasks)
    /\ UNCHANGED <<now, puts, calls>>
    /\ UNCHANGED appVars

\* called directly or by the hourly setInterval
CleanExpiredCache ==
    /\ bookCache' = CleanExpired(bookCache, now)
    /\ last' = [Op("cleanExpiredCache", NoKey, NoBuffer, NoBuffer, FALSE,
                   bookCache, bookCache')
                    EXCEPT !.logged = Len(bookCache) - Len(bookCache')]
    /\ tasks' = Disturbed(tasks)
    /\ UNCHANGED <<now, puts, calls>>
    /\ UNCHANGED appVars

\* variant of ClearAllCache: only the expired entries are dropped
ClearAllCacheKeepsLive ==
    /\ bookCache' = CleanExpired(bookCache, now)
    /\ last' = Op("clearAllCache", NoKey, NoBuffer, NoBuffer, FALSE, bookCache, bookCache')
    /\ puts' = NoPuts
    /\ tasks' = Disturbed(tasks)
    /\ UNCHANGED <<now, calls>>
    /\ UNCHANGED appVars

ClearAllCache ==
    /\ bookCache' = <<>>
    /\ last' = Op("clearAllCache", NoKey, NoBuffer, NoBuffer, FALSE, bookCache, bookCache')
    /\ puts' = NoPuts
    /\ tasks' = Disturbed(tasks)
    /\ UNCHANGED <<now, calls>>
    /\ UNCHANGED appVars

GetCacheStats ==
    /\ last' = [Op("getCacheStats", NoKey, NoBuffer, NoBuffer, FALSE, bookCache, bookCache)
                    EXCEPT !.stats = CacheStats(bookCache, now)]
    /\ UNCHANGED <<bookCache, now, puts, tasks, calls>>
    /\ UNCHANGED appVars

Next ==
    \/ Tick
    \/ \E k \in BookIds : IsBookCached(k)
    \/ \E k \in BookIds : GetCachedBook(k)
    \/ \E k \in BookIds, b \in Buffers : CacheBook(k, b)
    \/ CleanExpiredCache
    \/ ClearAllCache
    \/ GetCacheStats

Spec == Init /\ [][Next]_vars

\* ---- preloadBook

\* variant of PreloadBook: the early return is missing
PreloadBookNoReturn(p, k) ==
    /\ tasks[p].pc = "idle"
    /\ \A q \in Procs : q < p => tasks[q].pc # "idle"
    /\ now + PRELOAD_TIMEOUT <= MaxTime
    /\ bookCache' = IsBookCachedMap(bookCache, k, now)
    /\ last' = Op("preloadBook", k, NoBuffer, NoBuffer,
                  IsBookCachedValue(bookCache, k, now), bookCache, bookCache')
    /\ tasks' = Called(tasks, p, bookCache, AwaitingTask(k, now))
    /\ calls' = calls + 1
    /\ UNCHANGED <<now, puts>>
    /\ UNCHANGED appVars

\* the call itself, up to the early return or the await
PreloadBook(p, k) ==
    /\ tasks[p].pc = "idle"
    /\ \A q \in Procs : q < p => tasks[q].pc # "idle"
    /\ now + PRELOAD_TIMEOUT <= MaxTime
    /\ bookCache' = IsBookCachedMap(bookCache, k, now)
    /\ last' = Op("preloadBook", k, NoBuffer, NoBuffer,
                  IsBookCachedValue(bookCache, k, now), bookCache, bookCache')
    /\ IF IsBookCachedValue(bookCache, k, now)
       THEN /\ tasks' = Called(tasks, p, bookCache, SkippedTask(k))
            /\ calls' = calls
       ELSE /\ tasks' = Called(tasks, p, bookCache, AwaitingTask(k, now))
            /\ calls' = calls + 1
    /\ UNCHANGED <<now, puts>>
    /\ UNCHANGED appVars

\* file.arrayBuffer() resolves first: the await returns it and cacheBook runs
ArrayBufferResolves(p, b) ==
    /\ tasks[p].pc = "awaiting"
    /\ tasks[p].file = "pending"
    /\ \E t2 \in Later(now) : \E t3 \in Later(t2) :
        /\ bookCache' = CacheBookResult(bookCache, tasks[p].key, b, now, t2, t3)
        /\ puts' = LogPut(puts, tasks[p].key, b, t3)
        /\ now' = t3
    /\ last' = PutOp(tasks[p].key, b, bookCache, bookCache', now)
    /\ tasks' = [Disturbed(tasks) EXCEPT ![p] = Cached(@)]
    /\ UNCHANGED calls
    /\ UNCHANGED appVars

\* file.arrayBuffer() rejects first: the await throws into the catch block
ArrayBufferRejects(p) ==
    /\ tasks[p].pc = "awaiting"
    /\ tasks[p].file = "pending"
    /\ tasks' = [tasks EXCEPT ![p] = Caught([@ EXCEPT !.file = "rejected"], "failed")]
    /\ UNCHANGED <<bookCache, now, last, puts, calls>>
    /\ UNCHANGED appVars

\* the setTimeout callback runs: reject(new Error('Book preload timeout'));
\* the timer is never cleared, so it also runs after the race was decided
TimeoutFires(p) ==
    /\ tasks[p].timer = "armed"
    /\ now >= tasks[p].deadline
    /\ tasks' = [tasks EXCEPT ![p] =
            IF @.pc = "awaiting"
            THEN Caught([@ EXCEPT !.timer = "fired"], "timeout")
            ELSE [@ EXCEPT !.timer = "fired"]]
    /\ UNCHANGED <<bookCache, now, last, puts, calls>>
    /\ UNCHANGED appVars

\* variant of ArrayBufferLate: a continuation attached to file.arrayBuffer()
\* itself still calls cacheBook when the read resolves after the timeout
ArrayBufferLateCaches(p) ==
    /\ tasks[p].pc = "settled"
    /\ tasks[p].file = "pending"
    /\ \/ /\ tasks' = [tasks EXCEPT ![p].file = "rejected"]
          /\ UNCHANGED <<bookCache, now, last, puts>>
       \/ \E b \in Buffers :
          /\ bookCache' = CacheBookResult(bookCache, tasks[p].key, b, now, now, now)
          /\ puts' = LogPut(puts, tasks[p].key, b, now)
          /\ last' = Op("cacheBook", tasks[p].key, b, NoBuffer, FALSE, bookCache, bookCache')
          /\ tasks' = [tasks EXCEPT ![p].file = "resolved", ![p].put = TRUE]
          /\ UNCHANGED now
    /\ UNCHANGED calls
    /\ UNCHANGED appVars

\* file.arrayBuffer() settles after the timeout won the race: nothing awaits it
ArrayBufferLate(p) ==
    /\ tasks[p].pc = "settled"
    /\ tasks[p].file = "pending"
    /\ \E f \in {"resolved", "rejected"} : tasks' = [tasks EXCEPT ![p].file = f]
    /\ UNCHANGED <<bookCache, now, last, puts, calls>>
    /\ UNCHANGED appVars

\* one call of preloadBook, interleaved with the synchronous operations
NextPreload ==
    \/ Tick
    \/ \E k \in BookIds, b \in Buffers : CacheBook(k, b)
    \/ ClearAllCache
    \/ \E k \in BookIds : PreloadBook(1, k)
    \/ \E b \in Buffers : ArrayBufferResolves(1, b)
    \/ ArrayBufferRejects(1)
    \/ TimeoutFires(1)
    \/ ArrayBufferLate(1)

SpecPreload == Init /\ [][NextPreload]_vars

\* ======================================================================
\* Properties of the buffer cache
\* ======================================================================

\* a caller stores a book before any preloadBook has started reading
CacheBookBefore(k, b) ==
    /\ calls = 0
    /\ CacheBook(k, b)

\* two calls of preloadBook in flight, after other callers filled the cache
NextRace ==
    \/ Tick
    \/ \E k \in BookIds, b \in Buffers : CacheBookBefore(k, b)
    \/ \E p \in Procs, k \in BookIds : PreloadBook(p, k)
    \/ \E p \in Procs, b \in Buffers : ArrayBufferResolves(p, b)
    \/ \E p \in Procs : ArrayBufferRejects(p)
    \/ \E p \in Procs : TimeoutFires(p)
    \/ \E p \in Procs : ArrayBufferLate(p)

SpecRace == Init /\ [][NextRace]_vars

\* preloadBook calls alone: the reads may settle or never do, the clock runs
NextSettle ==
    \/ Tick
    \/ \E p \in Procs, k \in BookIds : PreloadBook(p, k)
    \/ \E p \in Procs, b \in Buffers : ArrayBufferResolves(p, b)
    \/ \E p \in Procs : ArrayBufferRejects(p)
    \/ \E p \in Procs : TimeoutFires(p)
    \/ \E p \in Procs : ArrayBufferLate(p)

\* the clock advances, and the event loop runs the callback of a timer that is
\* due; nothing is assumed about file.arrayBuffer()
SpecSettle ==
    /\ Init
    /\ [][NextSettle]_vars
    /\ WF_vars(Tick)
    /\ \A p \in Procs : WF_vars(TimeoutFires(p))

\* ---- ReaderSettings: the controls of the settings panel
\* the values the range input can report
SliderValues ==
    {v \in MinFontSize..MaxFontSize : (v - MinFontSize) % FontSizeStep = 0}

\* updateSettings: the new fields are merged over the present settings
UpdateSettings(new) ==
    [f \in DOMAIN settings |-> IF f \in DOMAIN new THEN new[f] ELSE settings[f]]

\* variant of IncreaseFont: the button is never disabled and the size not capped
IncreaseFontAlways ==
    /\ settings' = UpdateSettings([fontSize |-> settings.fontSize + FontSizeStep])
    /\ UNCHANGED <<books, currentBook, uploadVars, parse, reader, loads>>
    /\ UNCHANGED cacheVars

\* the A+ button, disabled at the largest size
IncreaseFont ==
    /\ ~(settings.fontSize >= MaxFontSize)
    /\ settings' = UpdateSettings([fontSize |->
            IF MaxFontSize < settings.fontSize + FontSizeStep
            THEN MaxFontSize ELSE settings.fontSize + FontSizeStep])
    /\ UNCHANGED <<books, currentBook, uploadVars, parse, reader, loads>>
    /\ UNCHANGED cacheVars

\* the A- button, disabled at the smallest size
DecreaseFont ==
    /\ ~(settings.fontSize <= MinFontSize)
    /\ settings' = UpdateSettings([fontSize |->
            IF MinFontSize > settings.fontSize - FontSizeStep
            THEN MinFontSize ELSE settings.fontSize - FontSizeStep])
    /\ UNCHANGED <<books, currentBook, uploadVars, parse, reader, loads>>
    /\ UNCHANGED cacheVars

\* the slider is moved to v
SlideFont(v) ==
    /\ settings' = UpdateSettings([fontSize |-> v])
    /\ UNCHANGED <<books, currentBook, uploadVars, parse, reader, loads>>
    /\ UNCHANGED cacheVars

\* a theme button
SetTheme(t) ==
    /\ settings' = UpdateSettings([theme |-> t])
    /\ UNCHANGED <<books, currentBook, uploadVars, parse, reader, loads>>
    /\ UNCHANGED cacheVars

\* a column mode button
SetColumnMode(m) ==
    /\ settings' = UpdateSettings([columnMode |-> m])
    /\ UNCHANGED <<books, currentBook, uploadVars, parse, reader, loads>>
    /\ UNCHANGED cacheVars

\* a reading mode button
SetReadingMode(m) ==
    /\ settings' = UpdateSettings([readingMode |-> m])
    /\ UNCHANGED <<books, currentBook, uploadVars, parse, reader, loads>>
    /\ UNCHANGED cacheVars

\* the reset button
ResetSettings ==
    /\ settings' = UpdateSettings(defaultSettings)
    /\ UNCHANGED <<books, currentBook, uploadVars, parse, reader, loads>>
    /\ UNCHANGED cacheVars

NextSettings ==
    \/ IncreaseFont
    \/ DecreaseFont
    \/ \E v \in SliderValues : SlideFont(v)
    \/ \E t \in {"light", "dark", "sepia"} : SetTheme(t)
    \/ \E m \in {"single", "double"} : SetColumnMode(m)
    \/ \E m \in {"paginated", "scrolled"} : SetReadingMode(m)
    \/ ResetSettings

SpecSettings == Init /\ [][NextSettings]_vars

\* ---- useBookStore: the books, and the reader's relocated handler
\* numbers with a fractional part are kept as multiples of 1/Scale:
\* the integer n stands for n / Scale
Scale == 2

\* the values epubBook.locations.percentageFromCfi can return: 0 to 1
Percentages == 0..Scale

\* progress * 100 in the relocated handler
TimesHundred(x) == x * 100

\* the book object returned by parseEpubFile: progress: { progress: 0 }
NewBook(k) == [id |-> k, progress |-> 0]

\* books.find(b => b.id === book.id)
ExistingBook(bs, k) == \E i \in 1..Len(bs) : bs[i].id = k

\* variant of AddBook: the book is appended without looking for its id
AddBookAlways(k) ==
    /\ books' = Append(books, NewBook(k))
    /\ UNCHANGED <<settings, currentBook, uploadVars, parse, reader, loads>>
    /\ UNCHANGED cacheVars

\* addBook
AddBook(k) ==
    /\ books' = IF ~ExistingBook(books, k) THEN Append(books, NewBook(k)) ELSE books
    /\ UNCHANGED <<settings, currentBook, uploadVars, parse, reader, loads>>
    /\ UNCHANGED cacheVars

\* removeBook
RemoveBook(k) ==
    /\ books' = SelectSeq(books, LAMBDA b : b.id # k)
    /\ currentBook' = IF currentBook.id = k THEN NoBook ELSE currentBook
    /\ UNCHANGED <<settings, uploadVars, parse, reader, loads>>
    /\ UNCHANGED cacheVars

\* setCurrentBook, with a book of the library or null
SetCurrentBook(b) ==
    /\ currentBook' = b
    /\ UNCHANGED <<settings, books, uploadVars, parse, reader, loads>>
    /\ UNCHANGED cacheVars

\* updateBookProgress: the books and the current book afterwards
UpdateBookProgress(k, pr) ==
    /\ books' = [i \in 1..Len(books) |->
                    IF books[i].id = k THEN [books[i] EXCEPT !.progress = pr] ELSE books[i]]
    /\ currentBook' = IF currentBook.id = k /\ currentBook # NoBook
                      THEN [currentBook EXCEPT !.progress = pr] ELSE currentBook

\* the reader's 'relocated' handler for the book it shows, once the locations
\* are generated: percentageFromCfi gives x, the store gets x * 100
Relocated(x) ==
    /\ currentBook # NoBook
    /\ UpdateBookProgress(currentBook.id, TimesHundred(x))
    /\ UNCHANGED <<settings, uploadVars, parse, reader, loads>>
    /\ UNCHANGED cacheVars

\* clearBooks
ClearBooks ==
    /\ books' = <<>>
    /\ currentBook' = NoBook
    /\ UNCHANGED <<settings, uploadVars, parse, reader, loads>>
    /\ UNCHANGED cacheVars

NextStore ==
    \/ \E k \in BookIds : AddBook(k)
    \/ \E k \in BookIds : RemoveBook(k)
    \/ \E i \in 1..Len(books) : SetCurrentBook(books[i])
    \/ SetCurrentBook(NoBook)
    \/ \E x \in Percentages : Relocated(x)
    \/ ClearBooks

SpecStore == Init /\ [][NextStore]_vars

\* ---- FileUpload: onDrop and its delayed resets
\* what parseEpubFile and the validation can throw, as onDrop sees it
UploadErrors == {"invalid", "conversion-timeout", "parse-failed"}

\* the catch and finally blocks of onDrop for the run u, thrown message m
UploadFailed(u, m) ==
    /\ errorMessage' = m
    /\ uploadStatus' = "error"
    /\ error' = m
    /\ isLoading' = FALSE
    /\ uploads' = [uploads EXCEPT ![u] = [pc |-> "done", timer |-> "error"]]
    /\ UNCHANGED books

\* a file is dropped or chosen: the dropzone is disabled while uploading
OnDrop(u) ==
    /\ uploads[u].pc = "idle"
    /\ \A v \in Uploads : v < u => uploads[v].pc # "idle"
    /\ ~(uploadStatus = "uploading")
    /\ uploadStatus' = "uploading"
    /\ error' = "null"
    /\ isLoading' = TRUE
    /\ uploads' = [uploads EXCEPT ![u].pc = "validating"]
    /\ UNCHANGED <<errorMessage, settings, books, currentBook, parse, reader, loads>>
    /\ UNCHANGED cacheVars

\* await EpubParser.validateEpubFile(file) returns
ValidateReturns(u, isValid) ==
    /\ uploads[u].pc = "validating"
    /\ IF isValid
       THEN /\ uploads' = [uploads EXCEPT ![u].pc = "parsing"]
            /\ UNCHANGED <<isLoading, error, uploadStatus, errorMessage, books>>
       ELSE UploadFailed(u, "invalid")
    /\ UNCHANGED <<settings, currentBook, parse, reader, loads>>
    /\ UNCHANGED cacheVars

\* await EpubParser.parseEpubFile(file) resolves with the book of id k
ParseResolves(u, k) ==
    /\ uploads[u].pc = "parsing"
    /\ books' = IF ~ExistingBook(books, k) THEN Append(books, NewBook(k)) ELSE books
    /\ uploadStatus' = "success"
    /\ isLoading' = FALSE
    /\ uploads' = [uploads EXCEPT ![u] = [pc |-> "done", timer |-> "success"]]
    /\ UNCHANGED <<error, errorMessage, settings, currentBook, parse, reader, loads>>
    /\ UNCHANGED cacheVars

\* await EpubParser.parseEpubFile(file) rejects with the message m
ParseRejects(u, m) ==
    /\ uploads[u].pc = "parsing"
    /\ UploadFailed(u, m)
    /\ UNCHANGED <<settings, currentBook, parse, reader, loads>>
    /\ UNCHANGED cacheVars

\* the setTimeout callback of the run u: 2 s after success, 5 s after an error
ResetFires(u) ==
    /\ uploads[u].timer \in {"success", "error"}
    /\ uploadStatus' = "idle"
    /\ IF uploads[u].timer = "error"
       THEN errorMessage' = "" /\ error' = "null"
       ELSE UNCHANGED <<errorMessage, error>>
    /\ uploads' = [uploads EXCEPT ![u].timer = "fired"]
    /\ UNCHANGED <<isLoading, settings, books, currentBook, parse, reader, loads>>
    /\ UNCHANGED cacheVars

NextUpload ==
    \/ \E u \in Uploads : OnDrop(u)
    \/ \E u \in Uploads, isValid \in BOOLEAN : ValidateReturns(u, isValid)
    \/ \E u \in Uploads, k \in BookIds : ParseResolves(u, k)
    \/ \E u \in Uploads, m \in UploadErrors \ {"invalid"} : ParseRejects(u, m)
    \/ \E u \in Uploads : ResetFires(u)

SpecUpload == Init /\ [][NextUpload]_vars

\* ---- EpubParser.parseEpubFile
\* the messages of the errors, in the order of their lines in the source:
\* 'EPUB文件解析超时' (the 15 s timer)
MsgConversionTimer == "EPUB file parse timeout"
\* '转换EPUB文件超时，请检查文件是否损坏或尝试使用其他文件'
MsgConversionTimeout == "converting EPUB file timed out, check the file or try another"
\* '书籍准备就绪超时' (the 10 s timer)
MsgReadyTimer == "book ready timeout"
\* '解析EPUB文件超时，请检查文件是否损坏或尝试使用其他文件'
MsgParseTimeout == "parsing EPUB file timed out, check the file or try another"
\* '解析EPUB文件失败，请确保文件格式正确'
MsgParseFailed == "parsing EPUB file failed, make sure the format is right"
\* an error of file.arrayBuffer(), an error of epubjs
MsgReadError == "read error"
MsgEpubError == "epubjs error"

\* the catch block around the conversion: the error thrown for the message m
ConversionCatch(m) == IF m = MsgConversionTimer THEN MsgConversionTimeout ELSE m

\* the catch block around the parsing: the error thrown for the message m
ParseCatch(m) == IF m = MsgConversionTimer THEN MsgParseTimeout ELSE MsgParseFailed

\* the run ends: the promise of parseEpubFile settles
Settled(run, why, res) == [run EXCEPT !.pc = "settled", !.cause = why, !.result = res]

\* the call, up to the first await: a cache hit goes straight to book.ready
ParseEpubFile(k) ==
    /\ parse.pc \in {"idle", "settled"}
    /\ bookCache' = GetCachedBookMap(bookCache, k, now)
    /\ last' = Op("getCachedBook", k, NoBuffer,
                  GetCachedBookValue(bookCache, k, now), FALSE, bookCache, bookCache')
    /\ tasks' = Disturbed(tasks)
    /\ parse' = IF GetCachedBookValue(bookCache, k, now) # NoBuffer
                THEN [IdleParse EXCEPT !.pc = "readying", !.key = k, !.readyTimer = "armed",
                                       !.buffer = GetCachedBookValue(bookCache, k, now)]
                ELSE [IdleParse EXCEPT !.pc = "converting", !.key = k, !.convTimer = "armed"]
    /\ UNCHANGED <<now, puts, calls>>
    /\ UNCHANGED <<settings, books, currentBook, uploadVars, reader, loads>>

\* file.arrayBuffer() wins the race: the buffer is cached, ePub(arrayBuffer)
\* is created and the second race starts
ConversionResolves(b) ==
    /\ parse.pc = "converting"
    /\ \E t2 \in Later(now) : \E t3 \in Later(t2) :
        /\ bookCache' = CacheBookResult(bookCache, parse.key, b, now, t2, t3)
        /\ puts' = LogPut(puts, parse.key, b, t3)
        /\ now' = t3
    /\ last' = PutOp(parse.key, b, bookCache, bookCache', now)
    /\ tasks' = Disturbed(tasks)
    /\ parse' = [parse EXCEPT !.pc = "readying", !.buffer = b, !.readyTimer = "armed"]
    /\ UNCHANGED calls
    /\ UNCHANGED <<settings, books, currentBook, uploadVars, reader, loads>>

\* file.arrayBuffer() rejects
ConversionRejects ==
    /\ parse.pc = "converting"
    /\ parse' = Settled(parse, "read-error", ConversionCatch(MsgReadError))
    /\ UNCHANGED <<settings, books, currentBook, uploadVars, reader, loads>>
    /\ UNCHANGED cacheVars

\* the 15 s timer runs (it is never cleared): reject(new Error('EPUB文件解析超时'))
ConversionTimerFires ==
    /\ parse.convTimer = "armed"
    /\ parse' = IF parse.pc = "converting"
                THEN Settled([parse EXCEPT !.convTimer = "fired"], "conversion-timeout",
                             ConversionCatch(MsgConversionTimer))
                ELSE [parse EXCEPT !.convTimer = "fired"]
    /\ UNCHANGED <<settings, books, currentBook, uploadVars, reader, loads>>
    /\ UNCHANGED cacheVars

\* book.ready wins the race: the extractions start
ReadyResolves ==
    /\ parse.pc = "readying"
    /\ parse' = [parse EXCEPT !.pc = "extracting"]
    /\ UNCHANGED <<settings, books, currentBook, uploadVars, reader, loads>>
    /\ UNCHANGED cacheVars

\* book.ready rejects
ReadyRejects ==
    /\ parse.pc = "readying"
    /\ parse' = Settled(parse, "ready-error", ParseCatch(MsgEpubError))
    /\ UNCHANGED <<settings, books, currentBook, uploadVars, reader, loads>>
    /\ UNCHANGED cacheVars

\* the 10 s timer runs (it is never cleared): reject(new Error('书籍准备就绪超时'))
ReadyTimerFires ==
    /\ parse.readyTimer = "armed"
    /\ parse' = IF parse.pc = "readying"
                THEN Settled([parse EXCEPT !.readyTimer = "fired"], "ready-timeout",
                             ParseCatch(MsgReadyTimer))
                ELSE [parse EXCEPT !.readyTimer = "fired"]
    /\ UNCHANGED <<settings, books, currentBook, uploadVars, reader, loads>>
    /\ UNCHANGED cacheVars

\* Promise.all of the three extractions, each with its own catch, resolves
ExtractionDone ==
    /\ parse.pc = "extracting"
    /\ parse' = Settled(parse, "done", "book")
    /\ UNCHANGED <<settings, books, currentBook, uploadVars, reader, loads>>
    /\ UNCHANGED cacheVars

NextParse ==
    \/ Tick
    \/ \E k \in BookIds : ParseEpubFile(k)
    \/ \E b \in Buffers : ConversionResolves(b)
    \/ ConversionRejects
    \/ ConversionTimerFires
    \/ ReadyResolves
    \/ ReadyRejects
    \/ ReadyTimerFires
    \/ ExtractionDone

SpecParse == Init /\ [][NextParse]_vars

\* ---- EpubReader: loadBook, its timers and the effect that calls it
\* the values of loadingError: null, '无法加载书籍：阅读器容器未准备好',
\* '书籍加载超时', '文件内容为空，请检查EPUB文件是否损坏', the message of an
\* error of the file or of epubjs
ErrContainer == "reader container not ready"
ErrLoadTimeout == "book load timeout"
ErrEmptyFile == "file content is empty"
ErrLibrary == "library error"

\* the books that are opened in the reader (the book prop)
ReaderBooks == {"a", "b"}

\* the error page is rendered instead of the reader, so viewerRef.current is null
ErrorPage(r) == r.loadingError # "null"

\* clearTimeout(id): a pending timer is cancelled, any other id is ignored
ClearTimeout(ls, id) ==
    IF id # 0 /\ ls[id].timer = "armed" THEN [ls EXCEPT ![id].timer = "cleared"] ELSE ls

\* the catch block of run l: its own timer is cleared, the error is shown
CatchLoads(ls, l) == [ClearTimeout(ls, l) EXCEPT ![l].pc = "failed"]
CatchReader(r, m) ==
    [r EXCEPT !.loadingTimeout = 0, !.loadingError = m, !.isLoading = FALSE]

\* the effect runs for the l-th time (mount, then each change of book.id,
\* book.file, book._arrayBuffer, readingMode or columnMode): the cleanup of the
\* previous effect clears the timer its render saw, the new loadBook callback
\* captures the current loadingTimeout and runs up to its first await.
\* own: book._arrayBuffer (NoBuffer: undefined)
LoadBook(l, k, own) ==
    /\ loads[l].pc = "idle"
    /\ \A m \in Loads : m < l => loads[m].pc # "idle"
    /\ LET cleaned == ClearTimeout(ClearTimeout(loads, reader.closure), reader.loadingTimeout)
           hit == GetCachedBookValue(bookCache, k, now)
           looked == GetCachedBookMap(bookCache, k, now)
           armed == [cleaned EXCEPT ![l] = [IdleLoad EXCEPT !.key = k, !.timer = "armed"]]
           loading == [isLoading |-> TRUE, loadingError |-> "null", loadingTimeout |-> l,
                       closure |-> reader.loadingTimeout]
       IN  IF ErrorPage(reader)
           THEN /\ loads' = [cleaned EXCEPT ![l].pc = "failed", ![l].key = k]
                /\ reader' = [reader EXCEPT !.loadingTimeout = 0, !.loadingError = ErrContainer,
                                            !.closure = reader.loadingTimeout]
                /\ UNCHANGED cacheVars
           ELSE /\ tasks' = Disturbed(tasks)
                /\ UNCHANGED calls
                /\ IF hit # NoBuffer
                   THEN /\ bookCache' = looked
                        /\ last' = Op("getCachedBook", k, NoBuffer, hit, FALSE, bookCache, looked)
                        /\ UNCHANGED <<now, puts>>
                        /\ IF ByteLength(hit) = 0
                           THEN /\ loads' = CatchLoads(armed, l)
                                /\ reader' = CatchReader(loading, ErrEmptyFile)
                           ELSE /\ loads' = [armed EXCEPT ![l].pc = "awaitReady"]
                                /\ reader' = loading
                   ELSE IF own # NoBuffer
                   THEN /\ \E t2 \in Later(now) : \E t3 \in Later(t2) :
                            /\ bookCache' = CacheBookResult(looked, k, own, now, t2, t3)
                            /\ puts' = LogPut(puts, k, own, t3)
                            /\ now' = t3
                        /\ last' = PutOp(k, own, looked, bookCache', now)
                        /\ IF ByteLength(own) = 0
                           THEN /\ loads' = CatchLoads(armed, l)
                                /\ reader' = CatchReader(loading, ErrEmptyFile)
                           ELSE /\ loads' = [armed EXCEPT ![l].pc = "awaitReady"]
                                /\ reader' = loading
                   ELSE /\ bookCache' = looked
                        /\ last' = Op("getCachedBook", k, NoBuffer, hit, FALSE, bookCache, looked)
                        /\ UNCHANGED <<now, puts>>
                        /\ loads' = [armed EXCEPT ![l].pc = "awaitBuffer"]
                        /\ reader' = loading
    /\ UNCHANGED <<settings, books, currentBook, uploadVars, parse>>

\* book.file.arrayBuffer() of run l resolves with b: it is cached, an empty
\* buffer is thrown to the catch block, otherwise the run waits for epubBook.ready
FileRead(l, b) ==
    /\ loads[l].pc = "awaitBuffer"
    /\ \E t2 \in Later(now) : \E t3 \in Later(t2) :
        /\ bookCache' = CacheBookResult(bookCache, loads[l].key, b, now, t2, t3)
        /\ puts' = LogPut(puts, loads[l].key, b, t3)
        /\ now' = t3
    /\ last' = PutOp(loads[l].key, b, bookCache, bookCache', now)
    /\ tasks' = Disturbed(tasks)
    /\ IF ByteLength(b) = 0
       THEN /\ loads' = CatchLoads(loads, l)
            /\ reader' = CatchReader(reader, ErrEmptyFile)
       ELSE /\ loads' = [loads EXCEPT ![l].pc = "awaitReady"]
            /\ UNCHANGED reader
    /\ UNCHANGED calls
    /\ UNCHANGED <<settings, books, currentBook, uploadVars, parse>>

\* epubBook.ready of run l resolves: renderTo(viewerRef.current) and display()
\* are called; what epubjs does with a null container is not in the source,
\* so with the error page up the call either throws or goes on
BookReady(l, throws) ==
    /\ loads[l].pc = "awaitReady"
    /\ throws => ErrorPage(reader)
    /\ IF throws
       THEN /\ loads' = CatchLoads(loads, l)
            /\ reader' = CatchReader(reader, ErrLibrary)
       ELSE /\ loads' = [loads EXCEPT ![l].pc = "awaitDisplay"]
            /\ UNCHANGED reader
    /\ UNCHANGED <<settings, books, currentBook, uploadVars, parse>>
    /\ UNCHANGED cacheVars

\* one of the awaited promises of run l rejects
LoadRejects(l) ==
    /\ loads[l].pc \in {"awaitBuffer", "awaitReady", "awaitDisplay"}
    /\ loads' = CatchLoads(loads, l)
    /\ reader' = CatchReader(reader, ErrLibrary)
    /\ UNCHANGED <<settings, books, currentBook, uploadVars, parse>>
    /\ UNCHANGED cacheVars

\* rendition.display() of run l resolves: the success path clears the run's
\* timer, sets loadingTimeout to null and arms the 500 ms timer
Displayed(l) ==
    /\ loads[l].pc = "awaitDisplay"
    /\ loads' = [ClearTimeout(loads, l) EXCEPT ![l].pc = "done", ![l].hide = "armed"]
    /\ reader' = [reader EXCEPT !.loadingTimeout = 0]
    /\ UNCHANGED <<settings, books, currentBook, uploadVars, parse>>
    /\ UNCHANGED cacheVars

\* the 500 ms timer of run l runs
HideFires(l) ==
    /\ loads[l].hide = "armed"
    /\ loads' = [loads EXCEPT ![l].hide = "fired"]
    /\ reader' = [reader EXCEPT !.isLoading = FALSE]
    /\ UNCHANGED <<settings, books, currentBook, uploadVars, parse>>
    /\ UNCHANGED cacheVars

\* the 30 s timer of run l runs
LoadTimeoutFires(l) ==
    /\ loads[l].timer = "armed"
    /\ loads' = [loads EXCEPT ![l].timer = "fired"]
    /\ reader' = [reader EXCEPT !.loadingError = ErrLoadTimeout, !.isLoading = FALSE]
    /\ UNCHANGED <<settings, books, currentBook, uploadVars, parse>>
    /\ UNCHANGED cacheVars

\* the retry button of the error page: loadBook is called with the callback
\* of the last effect and returns at the check of viewerRef.current
Retry ==
    /\ ErrorPage(reader)
    /\ loads' = ClearTimeout(loads, reader.closure)
    /\ reader' = [reader EXCEPT !.loadingError = ErrContainer,
                                !.loadingTimeout = IF reader.closure # 0 THEN 0 ELSE @]
    /\ UNCHANGED <<settings, books, currentBook, uploadVars, parse>>
    /\ UNCHANGED cacheVars

NextReader ==
    \/ Tick
    \/ \E l \in Loads : \E k \in ReaderBooks : \E own \in Buffers \cup {NoBuffer} : LoadBook(l, k, own)
    \/ \E l \in Loads : \E b \in Buffers : FileRead(l, b)
    \/ \E l \in Loads : \E throws \in BOOLEAN : BookReady(l, throws)
    \/ \E l \in Loads : LoadRejects(l)
    \/ \E l \in Loads : Displayed(l)
    \/ \E l \in Loads : HideFires(l)
    \/ \E l \in Loads : LoadTimeoutFires(l)
    \/ Retry

SpecReader == Init /\ [][NextReader]_vars

\* an entry's age at clock value t is within MAX_CACHE_AGE
Fresh(e, t) == t - e.timestamp <= MAX_CACHE_AGE

\* the entries of c other than the one for k
Others(c, k) == {c[i] : i \in {j \in 1..Len(c) : c[j].id # k}}

\* the step is a call of cacheBook (its arguments are last'.key and last'.buf)
CacheBookStep == last'.op = "cacheBook" /\ CacheBook(last'.key, last'.buf)

\* the step is a call of getCachedBook (its argument is last'.key)
GetCachedBookStep == last'.op = "getCachedBook" /\ GetCachedBook(last'.key)

\* the step is a call of isBookCached (its argument is last'.key)
IsBookCachedStep == last'.op = "isBookCached" /\ IsBookCached(last'.key)

\* C1: in every reachable state the number of cache entries is at most
\* MAX_CACHE_SIZE.
C1_CapacityInvariant == Len(bookCache) <= MAX_CACHE_SIZE

\* C2: a cacheBook of an absent key into a cache holding exactly MAX_CACHE_SIZE
\* unexpired entries removes exactly one entry, one whose lastAccessed is
\* minimal among the entries present, and leaves MAX_CACHE_SIZE entries.
C2_EvictOneOnPut ==
    [][(/\ CacheBookStep
        /\ Len(bookCache) = MAX_CACHE_SIZE
        /\ \A i \in 1..Len(bookCache) : Fresh(bookCache[i], now')
        /\ ~Has(bookCache, last'.key))
       => /\ Len(bookCache') = MAX_CACHE_SIZE
          /\ \E i \in 1..Len(bookCache) :
               /\ \A j \in 1..Len(bookCache) :
                     bookCache[i].lastAccessed <= bookCache[j].lastAccessed
               /\ KeysOf(bookCache') =
                     (KeysOf(bookCache) \ {bookCache[i].id}) \cup {last'.key}]_vars

\* C3: a cacheBook of an absent key that directly follows a getCachedBook hit
\* on k, in a cache of at least two entries, does not evict k (k is still
\* present unless it had expired), and what it evicts has the smallest
\* lastAccessed among the others.
C3_ReadProtectsFromEviction ==
    [][(/\ CacheBookStep
        /\ last.op = "getCachedBook"
        /\ last.ret # NoBuffer
        /\ Has(bookCache, last.key)
        /\ ~Has(bookCache, last'.key)
        /\ Len(bookCache) >= 2)
       => /\ Fresh(Get(bookCache, last.key), now') => Has(bookCache', last.key)
          /\ \A e \in Others(bookCache, last.key) :
               (Fresh(e, now') /\ ~Has(bookCache', e.id))
               => \A f \in Others(bookCache, last.key) :
                     e.lastAccessed <= f.lastAccessed]_vars

\* C4: while the cacheBook calls since the cache was empty had pairwise
\* distinct keys and were at most MAX_CACHE_SIZE, getCachedBook of any of
\* these keys, inserted no longer than MAX_CACHE_AGE ago, returns exactly the
\* buffer that was passed to cacheBook for that key.
C4_PutGetRoundTrip ==
    [][(/\ GetCachedBookStep
        /\ puts.valid
        /\ Has(puts.log, last'.key)
        /\ Fresh(Get(puts.log, last'.key), now))
       => last'.ret = Get(puts.log, last'.key).arrayBuffer]_vars

\* C4 witness: MAX_CACHE_SIZE distinct keys were inserted and the first of
\* them was read back.
C4_Witness ==
    /\ last.op = "getCachedBook"
    /\ puts.valid
    /\ Len(puts.log) = MAX_CACHE_SIZE
    /\ last.key = puts.log[1].id
    /\ last.ret = puts.log[1].arrayBuffer
    /\ \E i \in 1..Len(puts.log) : puts.log[i].arrayBuffer # last.ret

\* C5: getCachedBook(k) returns the stored buffer iff an entry for k exists
\* with now - timestamp <= MAX_CACHE_AGE, and then sets that entry's
\* lastAccessed to now and changes nothing else; an entry older than
\* MAX_CACHE_AGE is not returned and is gone afterwards; an absent key yields
\* null and leaves the map alone.
C5_GetResult ==
    [][GetCachedBookStep =>
            LET k == last'.key IN
            IF Has(bookCache, k)
            THEN LET e == Get(bookCache, k) IN
                 IF now - e.timestamp <= MAX_CACHE_AGE
                 THEN /\ last'.ret = e.arrayBuffer
                      /\ last'.ret # NoBuffer
                      /\ Len(bookCache') = Len(bookCache)
                      /\ \A i \in 1..Len(bookCache) :
                            bookCache'[i] =
                                IF bookCache[i].id = k
                                THEN [e EXCEPT !.lastAccessed = now]
                                ELSE bookCache[i]
                 ELSE /\ last'.ret = NoBuffer
                      /\ ~Has(bookCache', k)
                      /\ KeysOf(bookCache') = KeysOf(bookCache) \ {k}
            ELSE /\ last'.ret = NoBuffer
                 /\ bookCache' = bookCache]_vars

\* C5 witness: a read hit at the last clock value at which the entry is still
\* valid (age exactly MAX_CACHE_AGE), which moved lastAccessed.
C5_Witness ==
    /\ last.op = "getCachedBook"
    /\ last.ret # NoBuffer
    /\ Has(bookCache, last.key)
    /\ Get(bookCache, last.key).lastAccessed = now
    /\ now - Get(bookCache, last.key).timestamp = MAX_CACHE_AGE

\* C6: isBookCached(k) returns true iff an entry for k exists with
\* now - timestamp <= MAX_CACHE_AGE (an age of exactly MAX_CACHE_AGE counts as
\* cached) and then changes nothing; an entry older than that is removed, and
\* a getCacheStats that follows counts the entries without it.
C6_IsCachedResult ==
    [][/\ IsBookCachedStep =>
                LET k == last'.key IN
                IF Has(bookCache, k)
                THEN IF now - Get(bookCache, k).timestamp <= MAX_CACHE_AGE
                     THEN last'.ok /\ bookCache' = bookCache
                     ELSE /\ ~last'.ok
                          /\ ~Has(bookCache', k)
                          /\ Len(bookCache') = Len(bookCache) - 1
                ELSE ~last'.ok /\ bookCache' = bookCache
       /\ (GetCacheStats /\ last.op = "isBookCached" /\ ~last.ok)
            => /\ ~Has(bookCache, last.key)
               /\ last'.stats.totalCached = Cardinality(KeysOf(bookCache))]_vars

\* C6 witness: an isBookCached that found an entry older than MAX_CACHE_AGE,
\* returned false and deleted it, while another entry stayed in the map.
C6_Witness ==
    /\ last.op = "isBookCached"
    /\ ~last.ok
    /\ last.removed = {last.key}
    /\ Len(bookCache) > 0

\* C7: after cacheBook(k, b) the map holds exactly one entry for k, with
\* buffer b and with timestamp and lastAccessed both equal to the clock value
\* read at insertion, whatever the map held before.
C7_PutReplaces ==
    [][CacheBookStep =>
            LET k == last'.key IN
            /\ Cardinality({i \in 1..Len(bookCache') : bookCache'[i].id = k}) = 1
            /\ Get(bookCache', k) =
                 [id |-> k, arrayBuffer |-> last'.buf,
                  timestamp |-> now', lastAccessed |-> now']]_vars

\* C7 witness: a cacheBook replaced the first-inserted entry of a full cache:
\* it kept its place in the map and now carries a newer timestamp than the
\* entry inserted after it.
C7_Witness ==
    /\ last.op = "cacheBook"
    /\ Len(bookCache) = MAX_CACHE_SIZE
    /\ bookCache[1].id = last.key
    /\ bookCache[1].timestamp > bookCache[2].timestamp
    /\ bookCache[1].arrayBuffer # bookCache[2].arrayBuffer

\* C8: cacheBook removes an unexpired entry other than the one it replaces
\* only when the unexpired entries together with the new key would exceed
\* MAX_CACHE_SIZE.
C8_EvictOnlyWhenNeeded ==
    [][CacheBookStep =>
            LET live == {e \in Others(bookCache, last'.key) : Fresh(e, now')} IN
            (\E e \in live : ~Has(bookCache', e.id))
                => Cardinality({e.id : e \in live} \cup {last'.key}) > MAX_CACHE_SIZE]_vars

\* ======================================================================
\* Properties of preloadBook
\* ======================================================================

\* C9: a preloadBook of a key for which isBookCached is true (an entry exists
\* with now - timestamp <= MAX_CACHE_AGE) does not call file.arrayBuffer(),
\* leaves the map unchanged and returns at once.
C9_PreloadSkipsCached ==
    [][\A k \in BookIds :
        (/\ last'.op = "preloadBook"
         /\ PreloadBook(1, k)
         /\ Has(bookCache, k)
         /\ now - Get(bookCache, k).timestamp <= MAX_CACHE_AGE)
        => /\ calls' = calls
           /\ bookCache' = bookCache
           /\ tasks'[1].pc = "settled"
           /\ tasks'[1].timer = "none"
           /\ tasks'[1].promise = "fulfilled"]_vars

\* C9 witness: preloadBook returned early for a key that another call of
\* cacheBook had stored, with no file.arrayBuffer() call made so far.
C9_Witness ==
    /\ last.op = "preloadBook"
    /\ last.ok
    /\ tasks[1].outcome = "skipped"
    /\ Has(bookCache, last.key)
    /\ calls = 0

\* C10: when the timeout rejects while file.arrayBuffer() is still pending,
\* preloadBook settles without having called cacheBook (the map is as it was),
\* and its promise is fulfilled, not rejected; it stays so afterwards.
C10_PreloadTimeout ==
    [][/\ (TimeoutFires(1) /\ tasks[1].pc = "awaiting")
            => /\ bookCache' = bookCache
               /\ tasks'[1].pc = "settled"
               /\ tasks'[1].outcome = "timeout"
               /\ tasks'[1].promise = "fulfilled"
               /\ ~tasks'[1].put
       /\ tasks[1].outcome = "timeout"
            => /\ tasks'[1].outcome = "timeout"
               /\ tasks'[1].promise = "fulfilled"
               /\ ~tasks'[1].put]_vars

\* C10 witness: the preload timed out with the read still pending, and the
\* map holds no entry for its key.
C10_Witness ==
    /\ tasks[1].outcome = "timeout"
    /\ tasks[1].file = "pending"
    /\ tasks[1].pc = "settled"
    /\ ~Has(bookCache, tasks[1].key)

\* the clock value at which the call of preloadBook by p read Date.now()
CalledAt(p) == tasks[p].deadline - PRELOAD_TIMEOUT

\* the call of p ended in the catch block and no other operation ran meanwhile
FailedAlone(p) ==
    /\ tasks[p].outcome \in {"failed", "timeout"}
    /\ tasks[p].alone

\* C11 as stated: when file.arrayBuffer() rejects or the timeout wins, and no
\* other cache operation ran since the call, the map is identical (entries,
\* buffers, timestamp, lastAccessed, order) to the map at the moment
\* preloadBook was called, whatever that map was.
C11_PreloadFailureUnchanged ==
    FailedAlone(1) => bookCache = tasks[1].before

\* C11 amended: under the same conditions the map is the map at the moment of
\* the call except that an entry for the requested key that was older than
\* MAX_CACHE_AGE at the call is gone; every other entry is there, in the same
\* order, with the same buffer, timestamp and lastAccessed, and no entry was added.
C11_PreloadFailureKeepsLive ==
    FailedAlone(1) =>
        bookCache = SelectSeq(tasks[1].before,
                        LAMBDA e : \/ e.id # tasks[1].key
                                   \/ CalledAt(1) - e.timestamp <= MAX_CACHE_AGE)

\* C11 witness: a preload that timed out, alone, called on a map holding an
\* expired entry for its key and an expired entry for another key.
C11_Witness ==
    /\ FailedAlone(1)
    /\ tasks[1].outcome = "timeout"
    /\ Len(tasks[1].before) = 2
    /\ Len(bookCache) = 1
    /\ Expired(bookCache[1], CalledAt(1))

\* C12: once the timeout has won the race with file.arrayBuffer() still
\* pending, the call never executes cacheBook: the step in which the read
\* settles later leaves the map, the history of puts and the record of the last
\* operation untouched, and whatever else runs in between (cacheBook and
\* clearAllCache by other callers, the clock), no put is ever made by this call.
C12_LateCompletionDiscarded ==
    [][tasks[1].outcome = "timeout" =>
        /\ tasks'[1].outcome = "timeout"
        /\ ~tasks'[1].put
        /\ tasks'[1].file # tasks[1].file =>
            /\ tasks[1].file = "pending"
            /\ bookCache' = bookCache
            /\ puts' = puts
            /\ last' = last
            /\ now' = now]_vars

\* C12 witness: the read resolved after the timeout had fired, another caller's
\* cacheBook ran in between, and the map holds no entry for the preload's key.
C12_Witness ==
    /\ tasks[1].outcome = "timeout"
    /\ tasks[1].file = "resolved"
    /\ ~tasks[1].put
    /\ Len(bookCache) > 0
    /\ ~Has(bookCache, tasks[1].key)

\* the number of entries of the map c stored under the key k
CountOf(c, k) == Cardinality({i \in 1..Len(c) : c[i].id = k})

\* both calls ended by calling cacheBook, for the same key
BothCached ==
    /\ tasks[1].outcome = "cached"
    /\ tasks[2].outcome = "cached"
    /\ tasks[1].key = tasks[2].key

\* C13: two calls of preloadBook for the same key both found isBookCached false
\* and both call cacheBook. When the second of the two cacheBook calls has run,
\* the map holds exactly one entry for the key, carrying the buffer of that
\* second call and timestamp = lastAccessed = the clock value that call read;
\* and the map stays so while nothing but the clock and the two timers runs.
C13_RacingPreloads ==
    [][/\ \A p \in Procs : \A q \in Procs \ {p} :
            (/\ tasks[q].outcome = "cached"
             /\ tasks[p].pc = "awaiting"
             /\ tasks[p].key = tasks[q].key
             /\ tasks'[p].outcome = "cached")
            => /\ CountOf(bookCache', tasks[p].key) = 1
               /\ last'.op = "cacheBook"
               /\ last'.key = tasks[p].key
               /\ Get(bookCache', tasks[p].key)
                    = NewEntry(tasks[p].key, last'.buf, now')
       /\ BothCached => bookCache' = bookCache]_vars

\* C13 witness: both calls were made and both stored within one clock value (so
\* neither found the other's entry expired: they raced), with different
\* buffers, into a cache that another caller had filled.
C13_Witness ==
    /\ BothCached
    /\ now < tasks[1].deadline
    /\ now < tasks[2].deadline
    /\ Len(bookCache) = MAX_CACHE_SIZE
    /\ CountOf(bookCache, tasks[1].key) = 1
    /\ Get(bookCache, tasks[1].key).arrayBuffer = last.buf
    /\ last.buf = 2

\* C14: every call of preloadBook that reaches the await settles: at the
\* latest its timer fires, and a call whose timer has fired is settled, whether
\* or not file.arrayBuffer() ever resolves or rejects.
C14_PreloadSettles ==
    /\ \A p \in Procs : (tasks[p].pc = "awaiting") ~> (tasks[p].pc = "settled")
    /\ [](\A p \in Procs : tasks[p].timer = "fired" => tasks[p].pc = "settled")

\* C14 witness: both calls were settled by their timers, the reads of both
\* still pending.
C14_Witness ==
    \A p \in Procs :
        /\ tasks[p].pc = "settled"
        /\ tasks[p].timer = "fired"
        /\ tasks[p].outcome = "timeout"
        /\ tasks[p].file = "pending"

\* the entries of the map c, as a set
Entries(c) == {c[i] : i \in 1..Len(c)}

\* the step is a call of cleanExpiredCache
CleanExpiredCacheStep == last'.op = "cleanExpiredCache" /\ CleanExpiredCache

\* C15: a step adds a key to the map only if it is a call of cacheBook, and
\* then the key added is the argument of that call; isBookCached,
\* getCachedBook, cleanExpiredCache, clearAllCache and getCacheStats never add
\* a key, whether or not the key they are given was ever stored.
C15_OnlyPutAddsKey ==
    [][\/ KeysOf(bookCache') \subseteq KeysOf(bookCache)
       \/ /\ last'.op = "cacheBook"
          /\ KeysOf(bookCache') \ KeysOf(bookCache) = {last'.key}]_vars

\* C15 witness: getCachedBook of a key absent from a non-empty map returned
\* null and the key is still absent.
C15_Witness ==
    /\ last.op = "getCachedBook"
    /\ last.ret = NoBuffer
    /\ last.removed = {}
    /\ Len(bookCache) > 0
    /\ ~Has(bookCache, last.key)

C17_SweepPostState ==
    [][CleanExpiredCacheStep =>
        /\ Entries(bookCache') = {e \in Entries(bookCache) : now - e.timestamp <= MAX_CACHE_AGE}
        /\ Len(bookCache') = Cardinality(Entries(bookCache'))
        /\ \A i, j \in 1..Len(bookCache') :
            i < j => \E m, n \in 1..Len(bookCache) :
                        m < n /\ bookCache[m] = bookCache'[i] /\ bookCache[n] = bookCache'[j]
        /\ bookCache = <<>> => bookCache' = <<>>]_vars

\* C17 witness: a sweep removed two expired entries and kept an unexpired one.
C17_Witness ==
    /\ last.op = "cleanExpiredCache"
    /\ Cardinality(last.removed) = 2
    /\ Len(bookCache) = 1
    /\ Fresh(bookCache[1], now)

\* C18 as stated: cleanExpiredCache returns the number of entries it removed,
\* and 0 when the map was empty.
C18_SweepReturnsCount ==
    last.op = "cleanExpiredCache" => last.returned = Cardinality(last.removed)

\* C18 amended: cleanExpiredCache returns no value. It removes as many entries
\* as had now - timestamp > MAX_CACHE_AGE, and that number is what it writes
\* to the log (nothing is written when it is 0); on the empty map it removes
\* nothing and writes nothing.
C18_SweepLogsCount ==
    [][CleanExpiredCacheStep =>
        /\ last'.returned = Undefined
        /\ last'.logged = Cardinality({e \in Entries(bookCache) :
                                            now - e.timestamp > MAX_CACHE_AGE})
        /\ last'.logged = Cardinality(last'.removed)
        /\ bookCache = <<>> => (last'.logged = 0 /\ bookCache' = <<>>)]_vars

\* C18 witness: a sweep of a map whose two entries were both expired.
C18_Witness ==
    /\ last.op = "cleanExpiredCache"
    /\ last.logged = 2
    /\ last.returned = Undefined
    /\ bookCache = <<>>

\* C19: clearAllCache leaves the empty map, whatever the map was; a
\* getCacheStats that follows at once reports totalCached = 0 and totalSize = 0,
\* and an isBookCached or getCachedBook that follows at once, for any key,
\* returns false, respectively null.
C19_ClearEmpties ==
    [][/\ last'.op = "clearAllCache" => bookCache' = <<>>
       /\ (last.op = "clearAllCache" /\ last'.op = "getCacheStats")
            => (last'.stats.totalCached = 0 /\ last'.stats.totalSize = 0)
       /\ (last.op = "clearAllCache" /\ last'.op = "isBookCached") => ~last'.ok
       /\ (last.op = "clearAllCache" /\ last'.op = "getCachedBook")
            => last'.ret = NoBuffer]_vars

\* C19 witness: clearAllCache ran at clock value 2 on a map of two entries,
\* and the map is empty.
C19_Witness ==
    /\ last.op = "clearAllCache"
    /\ Cardinality(last.removed) = 2
    /\ puts = NoPuts
    /\ bookCache = <<>>
    /\ now = 2

\* C20: for an entry that is in the map before and after a step, the buffer
\* and timestamp change only if the step is a cacheBook of the entry's own key,
\* and lastAccessed changes only if the step is that or a getCachedBook of
\* the entry's own key that returned its buffer; isBookCached of any key,
\* cleanExpiredCache, getCacheStats, clearAllCache, and getCachedBook or
\* cacheBook of another key leave all three as they were.
C20_TouchOnlyOnHit ==
    [][\A k \in KeysOf(bookCache) \cap KeysOf(bookCache') :
        LET e == Get(bookCache, k)
            f == Get(bookCache', k)
        IN  /\ (f.arrayBuffer # e.arrayBuffer \/ f.timestamp # e.timestamp)
                => (last'.op = "cacheBook" /\ last'.key = k)
            /\ f.lastAccessed # e.lastAccessed
                => \/ last'.op = "cacheBook" /\ last'.key = k
                   \/ /\ last'.op = "getCachedBook"
                      /\ last'.key = k
                      /\ last'.ret = e.arrayBuffer
                      /\ f.lastAccessed = now]_vars

\* C20 witness: a getCachedBook hit moved the lastAccessed of its entry past
\* its timestamp, beside another entry whose lastAccessed is still its timestamp.
C20_Witness ==
    /\ last.op = "getCachedBook"
    /\ last.ret # NoBuffer
    /\ Len(bookCache) = 2
    /\ Get(bookCache, last.key).lastAccessed = now
    /\ Get(bookCache, last.key).timestamp < now
    /\ \E e \in Entries(bookCache) :
        e.id # last.key /\ e.lastAccessed = e.timestamp /\ e.timestamp < now

\* the sum of the byte lengths of the buffers of the entries c[i..Len(c)]
RECURSIVE BytesFrom(_, _)
BytesFrom(c, i) == IF i > Len(c) THEN 0 ELSE ByteLength(c[i].arrayBuffer) + BytesFrom(c, i + 1)

\* C21: getCacheStats returns totalCached = the number of entries in the map
\* and totalSize = the sum of their byteLength; when the map is not empty,
\* oldestCache is the least and newestCache the greatest timestamp of an entry;
\* the call changes no entry.
C21_StatsSnapshot ==
    [][(last'.op = "getCacheStats" /\ GetCacheStats) =>
        /\ last'.stats.totalCached = Len(bookCache)
        /\ last'.stats.totalSize = BytesFrom(bookCache, 1)
        /\ bookCache # <<>> =>
            /\ \E e \in Entries(bookCache) : e.timestamp = last'.stats.oldestCache
            /\ \A e \in Entries(bookCache) : e.timestamp >= last'.stats.oldestCache
            /\ \E e \in Entries(bookCache) : e.timestamp = last'.stats.newestCache
            /\ \A e \in Entries(bookCache) : e.timestamp <= last'.stats.newestCache
        /\ bookCache' = bookCache]_vars

\* C21 witness: statistics taken of two entries of different timestamps, both
\* older than the clock, one of them with a buffer of positive length.
C21_Witness ==
    /\ last.op = "getCacheStats"
    /\ last.stats.totalCached = 2
    /\ Len(bookCache) = 2
    /\ last.stats.totalSize = 1
    /\ 0 < last.stats.oldestCache
    /\ last.stats.oldestCache < last.stats.newestCache
    /\ last.stats.newestCache < now

\* the indices of the entries of c whose lastAccessed is the smallest in c
Tied(c) == {i \in 1..Len(c) : \A j \in 1..Len(c) : c[i].lastAccessed <= c[j].lastAccessed}

\* C24 as stated: when cacheBook of an absent key finds, after its sweep,
\* MAX_CACHE_SIZE or more entries of which several share the smallest
\* lastAccessed, it deletes exactly one entry, the first of the tied ones in
\* the map's iteration order, and all others stay.
C24_EvictionTieBreak ==
    [][\A k \in BookIds :
        LET c == CleanExpired(bookCache, now)
        IN  (/\ CacheBookStep
             /\ last'.key = k
             /\ ~Has(bookCache, k)
             /\ Len(c) >= MAX_CACHE_SIZE
             /\ Cardinality(Tied(c)) >= 2)
            => KeysOf(c) \ KeysOf(bookCache')
                    = {c[CHOOSE i \in Tied(c) : \A j \in Tied(c) : i <= j].id}]_vars

\* C27: getCachedBook never changes the timestamp of an entry, so an entry
\* whose timestamp is more than MAX_CACHE_AGE behind the clock is reported
\* absent by getCachedBook (null) and by isBookCached (false), whatever its
\* lastAccessed, that is however often it was read since it was stored.
C27_ReadDoesNotExtendLife ==
    [][/\ GetCachedBookStep =>
            /\ \A k \in KeysOf(bookCache) \cap KeysOf(bookCache') :
                    Get(bookCache', k).timestamp = Get(bookCache, k).timestamp
            /\ (/\ Has(bookCache, last'.key)
                /\ now > Get(bookCache, last'.key).timestamp + MAX_CACHE_AGE)
               => last'.ret = NoBuffer
       /\ (/\ IsBookCachedStep
           /\ Has(bookCache, last'.key)
           /\ now > Get(bookCache, last'.key).timestamp + MAX_CACHE_AGE)
          => ~last'.ok]_vars

\* C27 witness: getCachedBook returned null for an entry older than
\* MAX_CACHE_AGE that an earlier getCachedBook had read.
C27_Witness ==
    /\ last.op = "getCachedBook"
    /\ last.ret = NoBuffer
    /\ last.removed = {last.key}
    /\ last.read = {last.key}

\* ======================================================================
\* Properties of the store, the upload component, the parser and the reader
\* ======================================================================

\* C22: from the default size and after any sequence of A-, A+, slider moves
\* and resets (and of the other buttons of the panel), settings.fontSize lies
\* between 12 and 32 inclusive.
C22_FontSizeInRange ==
    /\ settings.fontSize >= MinFontSize
    /\ settings.fontSize <= MaxFontSize

\* C22 witness: the largest size, reached with a theme other than the default.
C22_Witness ==
    /\ settings.fontSize = MaxFontSize
    /\ settings.theme = "sepia"
    /\ settings.readingMode = "scrolled"

\* C23: the progress field stored for every book of the store is a number
\* between 0 and 1 (between 0 and Scale in multiples of 1/Scale), after any
\* sequence of relocated events.
C23_ProgressIsFraction ==
    \A i \in 1..Len(books) : books[i].progress >= 0 /\ books[i].progress <= Scale

\* C28: no two elements of books have the same id, after any sequence of
\* addBook, removeBook, setCurrentBook, updateBookProgress and clearBooks; and
\* addBook of an id that is present leaves books as it is.
C28_UniqueBookIds ==
    /\ [](\A i, j \in 1..Len(books) : books[i].id = books[j].id => i = j)
    /\ [][\A k \in BookIds : (AddBook(k) /\ ExistingBook(books, k)) => books' = books]_vars

\* C28 witness: a library of three books added one by one, "a" last; the first
\* is open in the reader and has progress stored by the reader.
C28_Witness ==
    /\ Len(books) = 3
    /\ books[3].id = "a"
    /\ books[1].progress > 0
    /\ currentBook.id = books[1].id

\* the run u of onDrop is between setUploadStatus('uploading') and its
\* success or error
Uploading(u) == uploads[u].pc \in {"validating", "parsing"}

\* C29: while a run of onDrop is between setting uploadStatus to 'uploading'
\* and its success or error, uploadStatus is 'uploading', whatever reset timers
\* of earlier runs fire meanwhile, and so no second run is in progress.
C29_OneUploadAtATime ==
    /\ \A u \in Uploads : Uploading(u) => uploadStatus = "uploading"
    /\ \A u, v \in Uploads : (Uploading(u) /\ Uploading(v)) => u = v

\* C25: a run of parseEpubFile ended by the 10 s timer while waiting for
\* book.ready rejects with the parse timeout message, not with the generic
\* format message; a run ended by the 15 s timer while converting the file
\* rejects with the conversion timeout message.
C25_TimeoutsReported ==
    /\ parse.cause = "ready-timeout" =>
            (parse.result = MsgParseTimeout /\ parse.result # MsgParseFailed)
    /\ parse.cause = "conversion-timeout" => parse.result = MsgConversionTimeout

\* the 30 s timers that are pending
Pending == {l \in Loads : loads[l].timer = "armed"}

\* C26: every run of loadBook clears the timer armed by an earlier run before
\* arming its own: at most one 30 s timer is pending at any time, and the
\* timer of an earlier run never runs (setting the timeout error) once a
\* later run has started.
C26_OneLoadTimer ==
    /\ [](Cardinality(Pending) <= 1)
    /\ [][\A l \in Loads :
            (loads[l].timer = "armed" /\ loads'[l].timer = "fired")
                => \A m \in Loads : m > l => loads[m].pc = "idle"]_vars

\* C30: when the only run of loadBook has reached its success path and its
\* 500 ms timer has run, no error is shown and the loading state is off,
\* whenever the 30 s timer ran.
C30_SuccessShowsNoError ==
    (/\ loads[1].pc = "done"
     /\ loads[1].hide = "fired"
     /\ \A m \in Loads : m > 1 => loads[m].pc = "idle")
        => (reader.loadingError = "null" /\ reader.isLoading = FALSE)

====
